---- MODULE Spec2Model ----
(***************************************************************************)
(* Billing backend (server.js, database.js, whatsapp.js) as a state        *)
(* machine.  Every HTTP handler of server.js is synchronous (better-sqlite3 *)
(* is a synchronous driver, Node runs one handler at a time), so a handler  *)
(* is one atomic action.  A handler is written as an operator from the      *)
(* state `s` and the request's inputs to a reply record that carries the    *)
(* state the handler leaves behind; the action applies it.                  *)
(*                                                                          *)
(* Columns that no modelled statement reads (nama, whatsapp, alamat,        *)
(* kategori, timestamps, ...) are not tracked.                              *)
(***************************************************************************)
EXTENDS Integers, Sequences, FiniteSets, TLC

\* ------------------------------------------------------------------ bounds
\* Most rows activity_logs may hold under Spec and under SpecStore: a handler
\* that would write past it is not taken.  Every insert of a customer,
\* transaction or user by a logged-in actor writes an audit row, so these also
\* bound the three id sequences.
MaxLog == 3
MaxStoreLog == 5
\* Longest customer list of a restore request.
MaxRestore == 1
\* SSE responses opened, frames written to one of them, and audit rows, under
\* SpecEvents.
MaxClients == 2
MaxFrames == 4
MaxEventLog == 4
\* Customers with a pending transaction, and calls of client.sendMessage,
\* under SpecGateway.
MaxDebtors == 3
MaxHanded == 3
\* Audit rows under SpecDebt, which starts with three.
MaxDebtLog == 7
\* Audit rows under SpecIntegrity.
MaxIntegrityLog == 6
\* SSE responses opened, frames written to all of them together, and QR
\* images being rendered, under SpecStatus.
MaxSubscribers == 2
MaxStatusFrames == 5
MaxQr == 1

\* ------------------------------------------------------------ value domains
NULL == 0
Roles == {"admin", "staff"}
Tipes == {"internet", "gas"}
Jenis == {"pemasukan", "pengeluaran"}
Statuses == {"pending", "lunas"}
PembayaranOtomatis == "Pembayaran otomatis"

VARIABLES
  users,           \* table users: id -> [username, password, role, aktif]
  customers,       \* table customers: id -> [tipe, aktif, created_by]
  transactions,    \* table transactions: id -> row
  settings,        \* table settings: key -> value
  activity_logs,   \* table activity_logs, in insertion order
  message_logs,    \* table message_logs, in insertion order
  sqlite_sequence, \* AUTOINCREMENT high-water mark of each table
  tokens,          \* the JWTs signed so far, each with whether its 24h ran out
  clients,         \* server.js `clients`: the registered SSE responses
  streams,         \* what was written to each SSE response opened so far
  client,          \* whatsapp.js `client`: NULL or the Client instance
  clientStatus,    \* whatsapp.js `clientStatus`
  stopping,        \* a stopService() call is awaiting client.destroy()
  sendMessageCalls, \* how many times client.sendMessage was called
  job,             \* the broadcastBillingMessage call in progress, if any
  qrImages         \* generateQRCodeImage promises that have not resolved yet

vars == <<users, customers, transactions, settings, activity_logs,
          message_logs, sqlite_sequence, tokens, clients, streams, client,
          clientStatus, stopping, sendMessageCalls, job, qrImages>>

\* The state a handler reads and leaves behind.
State ==
  [users |-> users, customers |-> customers, transactions |-> transactions,
   settings |-> settings, activity_logs |-> activity_logs,
   message_logs |-> message_logs,
   sqlite_sequence |-> sqlite_sequence, tokens |-> tokens]

\* The tables alone (everything of the state but the signed tokens).
Tables(s) ==
  [users |-> s.users, customers |-> s.customers, transactions |-> s.transactions,
   settings |-> s.settings, activity_logs |-> s.activity_logs,
   message_logs |-> s.message_logs,
   sqlite_sequence |-> s.sqlite_sequence]

\* A statement's outcome: the state after it, whether it threw, what it returned
\* (as the truth value the callers test).
Done(s, ret) == [s |-> s, threw |-> FALSE, ret |-> ret]
Threw(s) == [s |-> s, threw |-> TRUE, ret |-> FALSE]

\* bcryptjs: a one-way hash and its comparison.
hashSync(password) == <<"bcrypt", password>>
compareSync(password, hash) == hash = hashSync(password)

\* FOREIGN KEY (...) REFERENCES users(id), with foreign_keys = ON: a NULL
\* reference or an existing row.
RefUser(s, userId) == userId = NULL \/ userId \in DOMAIN s.users
RefCustomer(s, customerId) == customerId \in DOMAIN s.customers

\* A users row is referenced from another table (its DELETE then fails).
UserReferenced(s, id) ==
  \/ \E i \in 1..Len(s.activity_logs) : s.activity_logs[i].user_id = id
  \/ \E c \in DOMAIN s.customers : s.customers[c].created_by = id
  \/ \E t \in DOMAIN s.transactions : s.transactions[t].created_by = id
  \/ \E i \in 1..Len(s.message_logs) : s.message_logs[i].sent_by = id

CustomerReferenced(s, id) ==
  \/ \E t \in DOMAIN s.transactions : s.transactions[t].customer_id = id
  \/ \E i \in 1..Len(s.message_logs) : s.message_logs[i].customer_id = id

\* ============================ database.js: userOps =======================
userOps_getById(s, id) == id \in DOMAIN s.users

userOps_getByUsername(s, username) ==
  IF \E id \in DOMAIN s.users : s.users[id].username = username
  THEN CHOOSE id \in DOMAIN s.users : s.users[id].username = username
  ELSE NULL

userOps_create(s, data) ==
  LET role == IF data.role = "" THEN "staff" ELSE data.role
      id == s.sqlite_sequence.users + 1
      row == [username |-> data.username, password |-> hashSync(data.password),
              role |-> role, aktif |-> TRUE]
  IN IF role \notin Roles \/ userOps_getByUsername(s, data.username) # NULL
     THEN Threw(s)
     ELSE Done([s EXCEPT !.users = @ @@ (id :> row),
                         !.sqlite_sequence.users = id], TRUE)

userOps_update(s, id, data) ==
  IF id \notin DOMAIN s.users THEN Done(s, FALSE)
  ELSE IF data.role \notin Roles THEN Threw(s)
  ELSE Done([s EXCEPT !.users[id].role = data.role,
                      !.users[id].aktif = data.aktif,
                      !.users[id].password =
                         IF data.password # "" THEN hashSync(data.password) ELSE @],
            TRUE)

userOps_verifyPassword(user, password) == compareSync(password, user.password)

userOps_logActivity(s, userId, action) ==
  IF RefUser(s, userId)
  THEN Done([s EXCEPT !.activity_logs =
                        Append(@, [user_id |-> userId, action |-> action])], TRUE)
  ELSE Threw(s)

\* An op that writes its audit row with or without an acting user.
LogIfActor_always(s, userId, action) == userOps_logActivity(s, userId, action)

\* `if (userId) userOps.logActivity(...)` of the customer and transaction ops.
LogIfActor(s, userId, action) ==
  IF userId # NULL THEN userOps_logActivity(s, userId, action) ELSE Done(s, TRUE)

\* ============================ database.js: customerOps ===================
customerOps_getById(s, id) == id \in DOMAIN s.customers

customerOps_create(s, data, userId) ==
  LET id == s.sqlite_sequence.customers + 1
      row == [tipe |-> data.tipe, aktif |-> TRUE, created_by |-> userId]
  IN IF data.tipe \notin Tipes \/ ~RefUser(s, userId)
     THEN Threw(s)
     ELSE LogIfActor([s EXCEPT !.customers = @ @@ (id :> row),
                               !.sqlite_sequence.customers = id],
                     userId, "CREATE_CUSTOMER")

\* The audit row is written whether or not the UPDATE matched a row.
customerOps_update(s, id, data, userId) ==
  IF id \in DOMAIN s.customers /\ data.tipe \notin Tipes THEN Threw(s)
  ELSE LET s1 == IF id \in DOMAIN s.customers
                 THEN [s EXCEPT !.customers[id].tipe = data.tipe]
                 ELSE s
           logged == LogIfActor(s1, userId, "UPDATE_CUSTOMER")
       IN IF logged.threw THEN logged
          ELSE Done(logged.s, customerOps_getById(logged.s, id))

\* A delete on a database opened without `foreign_keys = ON`.
customerOps_delete_unchecked(s, id, userId) ==
  IF customerOps_getById(s, id)
  THEN LogIfActor([s EXCEPT !.customers = [c \in DOMAIN @ \ {id} |-> @[c]]],
                  userId, "DELETE_CUSTOMER")
  ELSE Done(s, FALSE)

customerOps_delete(s, id, userId) ==
  IF customerOps_getById(s, id)
  THEN IF CustomerReferenced(s, id) THEN Threw(s)
       ELSE LogIfActor([s EXCEPT !.customers =
                                   [c \in DOMAIN @ \ {id} |-> @[c]]],
                       userId, "DELETE_CUSTOMER")
  ELSE Done(s, FALSE)

\* SUM(t.jumlah) over a set of transactions rows.
RECURSIVE SumJumlah(_, _)
SumJumlah(trs, ids) ==
  IF ids = {} THEN 0
  ELSE LET t == CHOOSE x \in ids : TRUE
       IN trs[t].jumlah + SumJumlah(trs, ids \ {t})

\* A query that sums every transaction of the customer, settled ones too.
customerOps_getWithPending_anyStatus(s) ==
  LET joined == {<<c, t>> \in (DOMAIN s.customers) \X (DOMAIN s.transactions) :
                   s.transactions[t].customer_id = c /\ s.customers[c].aktif}
      total_debt(c) == SumJumlah(s.transactions, {r[2] : r \in {x \in joined : x[1] = c}})
  IN {[id |-> c, total_debt |-> total_debt(c)] :
        c \in {g \in {r[1] : r \in joined} : total_debt(g) > 0}}

\* customerOps.getWithPending: customers INNER JOIN transactions, WHERE
\* t.status = 'pending' AND c.aktif = 1, GROUP BY c.id, HAVING total_debt > 0.
customerOps_getWithPending(s) ==
  LET joined == {<<c, t>> \in (DOMAIN s.customers) \X (DOMAIN s.transactions) :
                   s.transactions[t].customer_id = c}
      kept == {r \in joined : s.transactions[r[2]].status = "pending"
                              /\ s.customers[r[1]].aktif}
      groups == {r[1] : r \in kept}
      total_debt(c) == SumJumlah(s.transactions, {r[2] : r \in {x \in kept : x[1] = c}})
  IN {[id |-> c, total_debt |-> total_debt(c)] :
        c \in {g \in groups : total_debt(g) > 0}}

\* ============================ database.js: transactionOps ================
\* SELECT t.*, c.tipe as customer_tipe ... LEFT JOIN customers: the joined
\* column replaces the row's own customer_tipe, and is NULL without a customer.
transactionOps_getById(s, id) ==
  LET t == s.transactions[id]
  IN [t EXCEPT !.customer_tipe =
         IF t.customer_id \in DOMAIN s.customers
         THEN s.customers[t.customer_id].tipe ELSE ""]

\* The INSERT of a transactions row, with the table's constraints.
InsertTransaction(s, row) ==
  LET id == s.sqlite_sequence.transactions + 1
  IN IF \/ ~RefCustomer(s, row.customer_id)
        \/ row.customer_tipe = ""
        \/ row.jenis \notin Jenis
        \/ row.status \notin Statuses
        \/ ~RefUser(s, row.created_by)
     THEN Threw(s)
     ELSE Done([s EXCEPT !.transactions = @ @@ (id :> row),
                         !.sqlite_sequence.transactions = id], TRUE)

transactionOps_create(s, data, userId) ==
  LET row == [customer_id |-> data.customer_id,
              customer_tipe |-> data.customer_tipe,
              jumlah |-> data.jumlah, jenis |-> data.jenis,
              status |-> IF data.status = "" THEN "pending" ELSE data.status,
              deskripsi |-> "", created_by |-> userId]
      ins == InsertTransaction(s, row)
  IN IF ins.threw THEN ins
     ELSE LogIfActor(ins.s, userId, "CREATE_TRANSACTION")

\* A status that flips on every call, so a second call reopens the row.
MarkAsLunasStatus_toggled(old) == IF old = "lunas" THEN "pending" ELSE "lunas"

\* UPDATE transactions SET status = "lunas" ... WHERE id = ?
\* ("lunas" names no column, so SQLite reads it as the string literal).
MarkAsLunasStatus(old) == "lunas"

\* A receipt that copies the direction of the transaction it pays.
ReceiptRow_copiedJenis(t, userId) ==
  [customer_id |-> t.customer_id, customer_tipe |-> t.customer_tipe,
   jumlah |-> t.jumlah, jenis |-> t.jenis, status |-> "lunas",
   deskripsi |-> PembayaranOtomatis, created_by |-> userId]

\* The row of the second INSERT of markAsLunas ("Create income record").
ReceiptRow(t, userId) ==
  [customer_id |-> t.customer_id, customer_tipe |-> t.customer_tipe,
   jumlah |-> t.jumlah, jenis |-> "pemasukan", status |-> "lunas",
   deskripsi |-> PembayaranOtomatis, created_by |-> userId]

\* markAsLunas that returns at once for a transaction that is already lunas.
markAsLunas_idempotent(s, id, userId) ==
  IF id \in DOMAIN s.transactions
  THEN IF s.transactions[id].status = "lunas" THEN Done(s, TRUE)
       ELSE LET t == transactionOps_getById(s, id)
                s1 == [s EXCEPT !.transactions[id].status = MarkAsLunasStatus(@)]
                ins == InsertTransaction(s1, ReceiptRow(t, userId))
            IN IF ins.threw THEN ins
               ELSE LogIfActor(ins.s, userId, "PAYMENT")
  ELSE Done(s, FALSE)

transactionOps_markAsLunas(s, id, userId) ==
  IF id \in DOMAIN s.transactions
  THEN LET t == transactionOps_getById(s, id)
           s1 == [s EXCEPT !.transactions[id].status = MarkAsLunasStatus(@)]
           ins == InsertTransaction(s1, ReceiptRow(t, userId))
       IN IF ins.threw THEN ins
          ELSE LogIfActor(ins.s, userId, "PAYMENT")
  ELSE Done(s, FALSE)

transactionOps_delete(s, id, userId) ==
  IF id \in DOMAIN s.transactions
  THEN LogIfActor([s EXCEPT !.transactions = [t \in DOMAIN @ \ {id} |-> @[t]]],
                  userId, "DELETE_TRANSACTION")
  ELSE Done(s, FALSE)

\* ============================ database.js: settingsOps ===================
settingsOps_set(s, key, value) ==
  Done([s EXCEPT !.settings =
          [k \in DOMAIN @ \cup {key} |-> IF k = key THEN value ELSE @[k]]], TRUE)

\* ============================ database.js: messageOps ====================
\* INSERT INTO message_logs: phone is NOT NULL, status is CHECKed, customer_id
\* and sent_by are foreign keys.
messageOps_create(s, data) ==
  IF \/ data.phone = NULL
     \/ data.status \notin {"success", "failed", "pending"}
     \/ ~(data.customer_id = NULL \/ RefCustomer(s, data.customer_id))
     \/ ~RefUser(s, data.sent_by)
  THEN Threw(s)
  ELSE Done([s EXCEPT !.message_logs = Append(@, data)], TRUE)

\* ============================ server.js: tokens ==========================
\* A request without an Authorization header.
NoToken == [id |-> NULL, username |-> "", role |-> "", expired |-> FALSE]
\* A token the server never signed (bad signature), claiming the admin role.
Forged == [id |-> NULL, username |-> "forged", role |-> "admin", expired |-> FALSE]
NoUser == [id |-> NULL, username |-> "", role |-> ""]

jwt_sign(id, username, role) ==
  [id |-> id, username |-> username, role |-> role, expired |-> FALSE]

\* jwt.verify: the signature is the server's and the 24h have not run out.
jwt_verify(s, token) == token \in s.tokens /\ ~token.expired

\* A handler's reply: the state it leaves, the HTTP status and error string,
\* the events it handed to broadcast(), and the token / user of the body.
Reply(s, status, error) ==
  [s |-> s, status |-> status, error |-> error, pub |-> <<>>,
   token |-> NoToken, user |-> NoUser]

\* broadcast({ type }) called by a handler: the event, and how many audit rows
\* the store held at the moment of the call.
Publish(reply, type) ==
  [reply EXCEPT !.pub = Append(@, [type |-> type,
                                   logged |-> Len(reply.s.activity_logs)])]

\* ============================ server.js: authentication ==================
\* A login without the `if (!user.aktif)` answer.
auth_login_anyAktif(s, username, password) ==
  LET id == userOps_getByUsername(s, username)
  IN IF id = NULL THEN Reply(s, 401, "Username tidak ditemukan")
     ELSE IF ~userOps_verifyPassword(s.users[id], password)
          THEN Reply(s, 401, "Password salah")
     ELSE LET token == jwt_sign(id, s.users[id].username, s.users[id].role)
              logged == userOps_logActivity(s, id, "LOGIN")
          IN IF logged.threw THEN Reply(logged.s, 500, "error")
             ELSE [Reply([logged.s EXCEPT !.tokens = @ \cup {token}], 200, "")
                     EXCEPT !.token = token,
                            !.user = [id |-> id, username |-> s.users[id].username,
                                      role |-> s.users[id].role]]

auth_login(s, username, password) ==
  LET id == userOps_getByUsername(s, username)
  IN IF id = NULL THEN Reply(s, 401, "Username tidak ditemukan")
     ELSE IF ~s.users[id].aktif THEN Reply(s, 401, "Akun tidak aktif")
     ELSE IF ~userOps_verifyPassword(s.users[id], password)
          THEN Reply(s, 401, "Password salah")
     ELSE LET token == jwt_sign(id, s.users[id].username, s.users[id].role)
              logged == userOps_logActivity(s, id, "LOGIN")
          IN IF logged.threw THEN Reply(logged.s, 500, "error")
             ELSE [Reply([logged.s EXCEPT !.tokens = @ \cup {token}], 200, "")
                     EXCEPT !.token = token,
                            !.user = [id |-> id, username |-> s.users[id].username,
                                      role |-> s.users[id].role]]

auth_verify(s, token) ==
  IF token = NoToken THEN Reply(s, 401, "Token tidak ditemukan")
  ELSE IF ~jwt_verify(s, token) THEN Reply(s, 401, "Token expired")
  ELSE IF ~userOps_getById(s, token.id) \/ ~s.users[token.id].aktif
       THEN Reply(s, 401, "User tidak valid")
  ELSE [Reply(s, 200, "") EXCEPT
          !.user = [id |-> token.id, username |-> s.users[token.id].username,
                    role |-> s.users[token.id].role]]

\* ============================ server.js: middleware ======================
\* The error authenticateToken answers with, "" when it calls next() with
\* req.user = the decoded token.
authenticateToken(s, token) ==
  IF token = NoToken THEN "Token diperlukan"
  ELSE IF ~jwt_verify(s, token) THEN "Token tidak valid"
  ELSE ""

\* A role check that lets every authenticated user through.
requireAdmin_anyRole(reqUser) == reqUser.role \in Roles

\* requireAdmin calls next().
requireAdmin(reqUser) == reqUser.role = "admin"

AksesDitolak == "Akses ditolak. Hanya admin yang dapat mengakses."

\* app.<method>(path, authenticateToken, handler)
Authenticated(s, token, handled) ==
  IF authenticateToken(s, token) # ""
  THEN Reply(s, 401, authenticateToken(s, token))
  ELSE handled

\* app.<method>(path, authenticateToken, requireAdmin, handler)
AdminOnly(s, token, handled) ==
  IF authenticateToken(s, token) # ""
  THEN Reply(s, 401, authenticateToken(s, token))
  ELSE IF ~requireAdmin(token) THEN Reply(s, 403, AksesDitolak)
  ELSE handled

\* try { ... } catch (error) { res.status(500) }: what the statements did before
\* the throw stays.
Caught(r) == Reply(r.s, 500, "error")

\* ============================ server.js: /api/users ======================
users_get(s, token) == AdminOnly(s, token, Reply(s, 200, ""))

users_post(s, token, data) ==
  AdminOnly(s, token,
    IF data.username = "" \/ data.password = "" THEN Reply(s, 400, "Data tidak lengkap")
    ELSE IF userOps_getByUsername(s, data.username) # NULL
         THEN Reply(s, 400, "Username sudah digunakan")
    ELSE LET created == userOps_create(s, data)
             logged == userOps_logActivity(created.s, token.id, "CREATE_USER")
         IN IF created.threw THEN Caught(created)
            ELSE IF logged.threw THEN Caught(logged)
            ELSE Reply(logged.s, 200, ""))

users_put(s, token, id, data) ==
  AdminOnly(s, token,
    LET updated == userOps_update(s, id, data)
        logged == userOps_logActivity(updated.s, token.id, "UPDATE_USER")
    IN IF updated.threw THEN Caught(updated)
       ELSE IF ~updated.ret THEN Reply(s, 404, "User tidak ditemukan")
       ELSE IF logged.threw THEN Caught(logged)
       ELSE Reply(logged.s, 200, ""))

users_delete(s, token, id) ==
  AdminOnly(s, token,
    IF id = token.id THEN Reply(s, 400, "Tidak dapat menghapus diri sendiri")
    ELSE IF ~userOps_getById(s, id) THEN Reply(s, 404, "User tidak ditemukan")
    ELSE IF UserReferenced(s, id) THEN Reply(s, 500, "error")
    ELSE LET deleted == [s EXCEPT !.users = [u \in DOMAIN @ \ {id} |-> @[u]]]
             logged == userOps_logActivity(deleted, token.id, "DELETE_USER")
         IN IF logged.threw THEN Caught(logged) ELSE Reply(logged.s, 200, ""))

\* ============================ server.js: /api/customers ==================
customers_get(s, token) == Authenticated(s, token, Reply(s, 200, ""))

customers_post(s, token, data) ==
  Authenticated(s, token,
    IF data.tipe = "" THEN Reply(s, 400, "Data tidak lengkap")
    ELSE LET created == customerOps_create(s, data, token.id)
         IN IF created.threw THEN Caught(created)
            ELSE Publish(Reply(created.s, 200, ""), "customer_updated"))

customers_put(s, token, id, data) ==
  Authenticated(s, token,
    LET updated == customerOps_update(s, id, data, token.id)
    IN IF updated.threw THEN Caught(updated)
       ELSE IF ~updated.ret THEN Reply(updated.s, 404, "Customer tidak ditemukan")
       ELSE Publish(Reply(updated.s, 200, ""), "customer_updated"))

customers_delete(s, token, id) ==
  Authenticated(s, token,
    LET deleted == customerOps_delete(s, id, token.id)
    IN IF deleted.threw THEN Caught(deleted)
       ELSE IF ~deleted.ret THEN Reply(deleted.s, 404, "Customer tidak ditemukan")
       ELSE Publish(Reply(deleted.s, 200, ""), "customer_updated"))

\* ============================ server.js: /api/transactions ===============
transactions_post(s, token, data) ==
  Authenticated(s, token,
    IF data.customer_id = NULL \/ data.jumlah = 0 \/ data.jenis = ""
    THEN Reply(s, 400, "Data tidak lengkap")
    ELSE LET created == transactionOps_create(s, data, token.id)
         IN IF created.threw THEN Caught(created)
            ELSE Publish(Reply(created.s, 200, ""), "transaction_updated"))

\* A route that broadcasts before it looks at markAsLunas's result.
transactions_mark_lunas_eagerBroadcast(s, token, id) ==
  Authenticated(s, token,
    LET result == transactionOps_markAsLunas(s, id, token.id)
    IN IF result.threw THEN Caught(result)
       ELSE IF ~result.ret
            THEN Publish(Reply(result.s, 404, "Transaksi tidak ditemukan"),
                         "transaction_updated")
       ELSE Publish(Reply(result.s, 200, ""), "transaction_updated"))

transactions_mark_lunas(s, token, id) ==
  Authenticated(s, token,
    LET result == transactionOps_markAsLunas(s, id, token.id)
    IN IF result.threw THEN Caught(result)
       ELSE IF ~result.ret THEN Reply(result.s, 404, "Transaksi tidak ditemukan")
       ELSE Publish(Reply(result.s, 200, ""), "transaction_updated"))

transactions_delete(s, token, id) ==
  Authenticated(s, token,
    LET result == transactionOps_delete(s, id, token.id)
    IN IF result.threw THEN Caught(result)
       ELSE IF ~result.ret THEN Reply(result.s, 404, "Transaksi tidak ditemukan")
       ELSE Publish(Reply(result.s, 200, ""), "transaction_updated"))

\* ============================ server.js: /api/settings ===================
settings_get(s, token) == Authenticated(s, token, Reply(s, 200, ""))

settings_post(s, token, key, value) ==
  Authenticated(s, token,
    IF key = "" THEN Reply(s, 400, "Key dan value diperlukan")
    ELSE Publish(Reply(settingsOps_set(s, key, value).s, 200, ""),
                 "settings_updated"))

\* ============================ server.js: backup / restore / logs =========
backup_get(s, token) == AdminOnly(s, token, Reply(s, 200, ""))

\* customers.forEach(c => customerOps.create({ ...c }, req.user.id)): the
\* first entry the store rejects throws out of the loop.
\* A restore that re-creates the first customer of the list only.
RestoreCustomers_firstOnly(s, list, userId) ==
  IF list = <<>> THEN Done(s, TRUE) ELSE customerOps_create(s, Head(list), userId)

RECURSIVE RestoreCustomers(_, _, _)
RestoreCustomers(s, list, userId) ==
  IF list = <<>> THEN Done(s, TRUE)
  ELSE LET created == customerOps_create(s, Head(list), userId)
       IN IF created.threw THEN created
          ELSE RestoreCustomers(created.s, Tail(list), userId)

\* Object.entries(settings).forEach(([key, value]) => settingsOps.set(key, value))
RECURSIVE RestoreSettings(_, _)
RestoreSettings(s, entries) ==
  IF entries = <<>> THEN s
  ELSE RestoreSettings(settingsOps_set(s, Head(entries)[1], Head(entries)[2]).s,
                       Tail(entries))

\* broadcast({ type: 'data_restored' }) runs before userOps.logActivity.
restore_post(s, token, body) ==
  AdminOnly(s, token,
    LET restored == RestoreCustomers(s, body.customers, token.id)
        set == RestoreSettings(restored.s, body.settings)
        published == Publish(Reply(set, 200, ""), "data_restored")
        logged == userOps_logActivity(set, token.id, "RESTORE_DATA")
    IN IF restored.threw THEN Caught(restored)
       ELSE IF logged.threw THEN [Caught(logged) EXCEPT !.pub = published.pub]
       ELSE [published EXCEPT !.s = logged.s])

activity_logs_get(s, token) == AdminOnly(s, token, Reply(s, 200, ""))

\* ============================ the state machine ==========================
\* database.js on a new billing.db: the two seeded accounts and the default
\* settings; no token has been signed.
Fresh ==
  [users |-> (1 :> [username |-> "admin", password |-> hashSync("admin123"),
                    role |-> "admin", aktif |-> TRUE])
          @@ (2 :> [username |-> "staff", password |-> hashSync("staff123"),
                    role |-> "staff", aktif |-> TRUE]),
   customers |-> <<>>,
   transactions |-> <<>>,
   settings |-> [price_internet |-> "150000", price_gas |-> "22000",
                 app_name |-> "PPPoE Billing Pro", business_address |-> "-"],
   activity_logs |-> <<>>,
   message_logs |-> <<>>,
   sqlite_sequence |-> [users |-> 2, customers |-> 0, transactions |-> 0],
   tokens |-> {}]

\* The variables take the state s.
Becomes(s) ==
  /\ users' = s.users
  /\ customers' = s.customers
  /\ transactions' = s.transactions
  /\ settings' = s.settings
  /\ activity_logs' = s.activity_logs
  /\ message_logs' = s.message_logs
  /\ sqlite_sequence' = s.sqlite_sequence
  /\ tokens' = s.tokens

Starts(s) ==
  /\ users = s.users
  /\ customers = s.customers
  /\ transactions = s.transactions
  /\ settings = s.settings
  /\ activity_logs = s.activity_logs
  /\ message_logs = s.message_logs
  /\ sqlite_sequence = s.sqlite_sequence
  /\ tokens = s.tokens

\* No broadcastBillingMessage call is in progress.
NoJob == [phase |-> "none", debtors |-> <<>>, userId |-> NULL,
          total |-> 0, success |-> 0, failed |-> 0]

\* The in-memory state of whatsapp.js and what it has handed to the transport.
gateway == <<client, clientStatus, stopping, sendMessageCalls, job, qrImages>>

\* server.js and whatsapp.js as loaded: no SSE client, no WhatsApp client.
Idle ==
  /\ clients = {}
  /\ streams = <<>>
  /\ client = NULL
  /\ clientStatus = "disconnected"
  /\ stopping = FALSE
  /\ sendMessageCalls = 0
  /\ job = NoJob
  /\ qrImages = 0

Init == Starts(Fresh) /\ Idle

\* One SSE frame: `data: ${JSON.stringify({ type, data })}`.
Frame(type, data) == [type |-> type, data |-> data]
RECURSIVE Frames(_)
Frames(pub) ==
  IF pub = <<>> THEN <<>> ELSE <<Frame(Head(pub).type, "")>> \o Frames(Tail(pub))

\* A broadcast that writes to every response ever opened.
broadcast_everyStream(cl, st, frames) == [ch \in DOMAIN st |-> st[ch] \o frames]

\* broadcast(data): clients.forEach(client => client.write(message)), for
\* each of the frames in turn.
broadcast(cl, st, frames) ==
  [ch \in DOMAIN st |-> IF ch \in cl THEN st[ch] \o frames ELSE st[ch]]

\* One request served: the state the handler's reply carries becomes the state
\* and the events it broadcast are written to the registered responses.
Serve(reply) ==
  /\ Becomes(reply.s)
  /\ streams' = broadcast(clients, streams, Frames(reply.pub))
  /\ UNCHANGED <<clients, gateway>>

\* The step leaves at most n rows in activity_logs.
Within(n) == Len(activity_logs') <= n

Login(username, password) == Serve(auth_login(State, username, password))
Verify(token) == Serve(auth_verify(State, token))
UsersGet(token) == Serve(users_get(State, token))
UsersPost(token, data) == Serve(users_post(State, token, data))
UsersPut(token, id, data) == Serve(users_put(State, token, id, data))
UsersDelete(token, id) == Serve(users_delete(State, token, id))
CustomersGet(token) == Serve(customers_get(State, token))
CustomersPost(token, data) == Serve(customers_post(State, token, data))
CustomersPut(token, id, data) == Serve(customers_put(State, token, id, data))
CustomersDelete(token, id) == Serve(customers_delete(State, token, id))
TransactionsPost(token, data) == Serve(transactions_post(State, token, data))
TransactionsMarkLunas(token, id) == Serve(transactions_mark_lunas(State, token, id))
TransactionsDelete(token, id) == Serve(transactions_delete(State, token, id))
SettingsGet(token) == Serve(settings_get(State, token))
SettingsPost(token, key, value) == Serve(settings_post(State, token, key, value))
BackupGet(token) == Serve(backup_get(State, token))
RestorePost(token, body) == Serve(restore_post(State, token, body))
ActivityLogsGet(token) == Serve(activity_logs_get(State, token))

\* 24 hours pass after a token was signed ({ expiresIn: '24h' }).
TokenExpires(token) ==
  /\ token \in tokens /\ ~token.expired
  /\ tokens' = (tokens \ {token}) \cup {[token EXCEPT !.expired = TRUE]}
  /\ UNCHANGED <<users, customers, transactions, settings, activity_logs,
                 message_logs, sqlite_sequence, clients, streams, gateway>>

\* ------------------------------------------------------- request inputs
Usernames == {"admin", "staff", "nobody"}
Passwords == {"admin123", "staff123"}
\* What a client may send as its token.
Presented == tokens \cup {NoToken, Forged}
UserIds == 1..(sqlite_sequence.users + 1)
CustomerIds == 1..(sqlite_sequence.customers + 1)
TransactionIds == 1..(sqlite_sequence.transactions + 1)
NewUsers == {[username |-> "baru", password |-> "staff123", role |-> ""],
             [username |-> "", password |-> "", role |-> ""]}
UserUpdates == [role : Roles \cup {"owner"}, aktif : BOOLEAN, password : {""}]
SettingKeys == {"price_gas", ""}
SettingValues == {"22000", "25000"}
CustomerData == {[tipe |-> t] : t \in Tipes \cup {""}}
Amounts == {1, 2}
TransactionsFor(ids) ==
  [customer_id : ids, customer_tipe : {"internet"}, jumlah : Amounts \cup {0},
   jenis : Jenis, status : {"", "lunas"}]
TransactionData == TransactionsFor(CustomerIds)
RECURSIVE SeqsUpTo(_, _)
SeqsUpTo(S, n) ==
  IF n = 0 THEN {<<>>}
  ELSE SeqsUpTo(S, n - 1) \cup
       {Append(q, x) : q \in {p \in SeqsUpTo(S, n - 1) : Len(p) = n - 1}, x \in S}
Backups == [customers : SeqsUpTo(CustomerData, MaxRestore),
            settings : {<<>>, << <<"price_gas", "25000">> >>}]

\* Accounts, sessions and the admin-only routes, from a new database.
Next ==
  \/ \E u \in Usernames, p \in Passwords : Login(u, p) /\ Within(MaxLog)
  \/ \E t \in Presented : Verify(t) /\ Within(MaxLog)
  \/ \E t \in tokens : TokenExpires(t)
  \/ \E t \in Presented : UsersGet(t) /\ Within(MaxLog)
  \/ \E t \in Presented, d \in NewUsers : UsersPost(t, d) /\ Within(MaxLog)
  \/ \E t \in Presented, id \in UserIds, d \in UserUpdates : UsersPut(t, id, d) /\ Within(MaxLog)
  \/ \E t \in Presented, id \in UserIds : UsersDelete(t, id) /\ Within(MaxLog)
  \/ \E t \in Presented : CustomersGet(t) /\ Within(MaxLog)
  \/ \E t \in Presented, k \in SettingKeys, v \in SettingValues : SettingsPost(t, k, v) /\ Within(MaxLog)
  \/ \E t \in Presented : BackupGet(t) /\ Within(MaxLog)
  \/ \E t \in Presented, b \in Backups : RestorePost(t, b) /\ Within(MaxLog)
  \/ \E t \in Presented : ActivityLogsGet(t) /\ Within(MaxLog)

Spec == Init /\ [][Next]_vars

\* The customer and transaction routes.  billing.db outlives the process and a
\* signed token outlives it too, so the server also starts on a database in
\* use: here one where a seeded user has logged in, registered a customer and
\* booked one transaction.
Actors == {[username |-> "admin", password |-> "admin123"],
           [username |-> "staff", password |-> "staff123"]}
InUse(actor, c, d) ==
  LET login == auth_login(Fresh, actor.username, actor.password)
      customer == customers_post(login.s, login.token, c)
  IN transactions_post(customer.s, login.token, d).s

InitStore ==
  \E actor \in Actors, c \in {x \in CustomerData : x.tipe \in Tipes},
     d \in {x \in TransactionsFor({1}) : x.jumlah # 0} :
    Starts(InUse(actor, c, d)) /\ Idle

NextStore ==
  \/ \E t \in tokens, d \in CustomerData : CustomersPost(t, d) /\ Within(MaxStoreLog)
  \/ \E t \in tokens, id \in CustomerIds, d \in CustomerData : CustomersPut(t, id, d) /\ Within(MaxStoreLog)
  \/ \E t \in tokens, id \in CustomerIds : CustomersDelete(t, id) /\ Within(MaxStoreLog)
  \/ \E t \in tokens, d \in TransactionData : TransactionsPost(t, d) /\ Within(MaxStoreLog)
  \/ \E t \in tokens, id \in TransactionIds : TransactionsMarkLunas(t, id) /\ Within(MaxStoreLog)
  \/ \E t \in tokens, id \in TransactionIds : TransactionsDelete(t, id) /\ Within(MaxStoreLog)
  \/ \E t \in tokens, b \in Backups : RestorePost(t, b) /\ Within(MaxStoreLog)

SpecStore == InitStore /\ [][NextStore]_vars

\* ============================ server.js: /api/events =====================
\* The tables and the signed tokens.
store == <<users, customers, transactions, settings, activity_logs,
           message_logs, sqlite_sequence, tokens>>

\* A handler that writes the gateway status before the acknowledgement.
events_get_statusFirst(cl, st, status) ==
  [clients |-> cl \cup {Len(st) + 1},
   streams |-> Append(st, <<Frame("wa_status", status), Frame("connected", "")>>)]

\* GET /api/events: res.write(connected); clients.add(res);
\* res.write(wa_status with whatsapp.getStatus()).  The new response is the
\* next entry of streams.
events_get(cl, st, status) ==
  LET res == Len(st) + 1
      acked == Append(st, <<Frame("connected", "")>>)
      added == cl \cup {res}
  IN [clients |-> added,
      streams |-> [acked EXCEPT ![res] = Append(@, Frame("wa_status", status))]]

EventsGet ==
  /\ clients' = events_get(clients, streams, clientStatus).clients
  /\ streams' = events_get(clients, streams, clientStatus).streams
  /\ UNCHANGED <<store, gateway>>

\* req.on('close', () => clients.delete(res))
EventsClose(res) ==
  /\ res \in clients
  /\ clients' = clients \ {res}
  /\ UNCHANGED <<store, streams, gateway>>

\* ============================ whatsapp.js: service =======================
\* A status assignment that is not followed by broadcastStatus().
SetStatus_silent(status) == clientStatus' = status /\ streams' = streams

\* clientStatus = status; broadcastStatus(), whose callback is
\* broadcast({ type: 'wa_status', data: status }).
SetStatus(status) ==
  /\ clientStatus' = status
  /\ streams' = broadcast(clients, streams, <<Frame("wa_status", status)>>)

\* createClient(): client = new Client({ ... }), the one instance there is at
\* a time.
Client == 1

\* startService(), reached through POST /api/whatsapp/start.
startService ==
  /\ SetStatus("initializing")
  /\ client' = IF client = NULL THEN Client ELSE client
  /\ UNCHANGED <<store, clients, stopping, sendMessageCalls, job, qrImages>>

WhatsappStart(token) == authenticateToken(State, token) = "" /\ startService

\* The handlers attached to the Client instance; it emits while it exists.
OnEvent(status) ==
  /\ client # NULL
  /\ SetStatus(status)
  /\ UNCHANGED <<store, clients, client, stopping, sendMessageCalls, job, qrImages>>

onReady == OnEvent("ready")
onAuthenticated == OnEvent("authenticated")
onAuthenticationFailure == OnEvent("disconnected")
\* onQr also starts generateQRCodeImage(qr), whose promise resolves later.
onQr ==
  /\ client # NULL
  /\ SetStatus("qr")
  /\ qrImages' = qrImages + 1
  /\ UNCHANGED <<store, clients, client, stopping, sendMessageCalls, job>>
\* .then(imgData => broadcastQR(imgData)), whose callback is
\* broadcast({ type: 'wa_qr', data: qrData }).
QrGenerated ==
  /\ qrImages > 0
  /\ qrImages' = qrImages - 1
  /\ streams' = broadcast(clients, streams, <<Frame("wa_qr", "")>>)
  /\ UNCHANGED <<store, clients, client, clientStatus, stopping,
                 sendMessageCalls, job>>
\* state_change to UNPAIRED or LOGGED_OUT.
onStateChange == OnEvent("disconnected")
\* client.initialize() rejects.
InitializeFails == OnEvent("error")

\* stopService() up to `await client.destroy()`; without a client it runs to
\* its end at once.
stopService ==
  IF client # NULL
  THEN /\ stopping' = TRUE
       /\ UNCHANGED <<store, clients, streams, client, clientStatus,
                      sendMessageCalls, job, qrImages>>
  ELSE /\ SetStatus("disconnected")
       /\ UNCHANGED <<store, clients, client, stopping, sendMessageCalls, job, qrImages>>

WhatsappStop(token) == authenticateToken(State, token) = "" /\ stopService

\* client.destroy() resolves: client = null; clientStatus = 'disconnected'.
Destroyed ==
  /\ stopping
  /\ stopping' = FALSE
  /\ client' = NULL
  /\ SetStatus("disconnected")
  /\ UNCHANGED <<store, clients, sendMessageCalls, job, qrImages>>

\* client.destroy() rejects: stopService returns { success: false }.
DestroyFails ==
  /\ stopping
  /\ stopping' = FALSE
  /\ UNCHANGED <<store, clients, streams, client, clientStatus,
                 sendMessageCalls, job, qrImages>>

\* ============================ whatsapp.js: sending =======================
\* What one sendBillingMessage call did: the tables after it, whether it
\* called client.sendMessage, and how its promise settled ("success" and
\* "failed" are the { success } it resolved with, "thrown" a rejection).
Sent(s, handed, outcome) == [s |-> s, handed |-> handed, outcome |-> outcome]

\* The catch block of sendBillingMessage.  `customer` is a const of the try
\* block, so reading it in the object literal passed to messageOps.create
\* raises a ReferenceError before anything is logged, and the promise rejects.
CatchSend(s, handed) == Sent(s, handed, "thrown")

\* A send that goes to the transport whatever the status is.
sendBillingMessage_unchecked(s, cl, status, customerId, userId, accepted) ==
  IF accepted THEN Sent(s, TRUE, "success") ELSE CatchSend(s, TRUE)

\* sendBillingMessage(customerId, message, userId) with `client` = cl and
\* `clientStatus` = status; accepted tells whether client.sendMessage resolves.
sendBillingMessage(s, cl, status, customerId, userId, accepted) ==
  IF cl = NULL \/ status # "ready" THEN CatchSend(s, FALSE)
  ELSE IF ~customerOps_getById(s, customerId) THEN CatchSend(s, FALSE)
  ELSE IF ~accepted THEN CatchSend(s, TRUE)
  ELSE LET logged == messageOps_create(s, [customer_id |-> customerId,
                                           phone |-> customerId,
                                           status |-> "success",
                                           sent_by |-> userId])
       IN IF logged.threw THEN CatchSend(logged.s, TRUE)
          ELSE Sent(logged.s, TRUE, "success")

\* The tables and the transport after the send.
Sends(sent) ==
  /\ Becomes(sent.s)
  /\ sendMessageCalls' = sendMessageCalls + (IF sent.handed THEN 1 ELSE 0)

\* POST /api/whatsapp/send-billing for a customer that exists.
WhatsappSendBilling(token, customerId, accepted) ==
  /\ authenticateToken(State, token) = ""
  /\ customerOps_getById(State, customerId)
  /\ Sends(sendBillingMessage(State, client, clientStatus, customerId,
                              token.id, accepted))
  /\ UNCHANGED <<clients, streams, client, clientStatus, stopping, job,
                 qrImages>>

\* The debtors in the order the loop visits them (the query orders by nama;
\* here by id).
RECURSIVE InOrder(_)
InOrder(ids) ==
  IF ids = {} THEN <<>>
  ELSE LET least == CHOOSE x \in ids : \A y \in ids : x <= y
       IN <<least>> \o InOrder(ids \ {least})

\* broadcastBillingMessage up to its first await: debtors =
\* customerOps.getWithPending(), results all zero.
broadcastBillingMessage(s, userId) ==
  [phase |-> "running",
   debtors |-> InOrder({d.id : d \in customerOps_getWithPending(s)}),
   userId |-> userId, total |-> 0, success |-> 0, failed |-> 0]

\* POST /api/whatsapp/broadcast with a template.
WhatsappBroadcast(token) ==
  /\ authenticateToken(State, token) = ""
  /\ job.phase # "running"
  /\ job' = broadcastBillingMessage(State, token.id)
  /\ UNCHANGED <<store, clients, streams, client, clientStatus, stopping,
                 sendMessageCalls, qrImages>>

\* One turn of the for loop: results.total++, await sendBillingMessage, count
\* its result.  A rejected send leaves the loop through the outer catch, which
\* returns { success: false, error }.
Counted(j, outcome) ==
  IF outcome = "thrown" THEN [j EXCEPT !.total = @ + 1, !.phase = "failed"]
  ELSE [j EXCEPT !.total = @ + 1,
                 !.success = @ + (IF outcome = "success" THEN 1 ELSE 0),
                 !.failed = @ + (IF outcome = "failed" THEN 1 ELSE 0)]

BroadcastSend(accepted) ==
  /\ job.phase = "running" /\ job.total < Len(job.debtors)
  /\ LET sent == sendBillingMessage(State, client, clientStatus,
                                    job.debtors[job.total + 1], job.userId,
                                    accepted)
     IN Sends(sent) /\ job' = Counted(job, sent.outcome)
  /\ UNCHANGED <<clients, streams, client, clientStatus, stopping, qrImages>>

\* The loop is over: return { success: true, summary: results }.
BroadcastReturns ==
  /\ job.phase = "running" /\ job.total = Len(job.debtors)
  /\ job' = [job EXCEPT !.phase = "completed"]
  /\ UNCHANGED <<store, clients, streams, client, clientStatus, stopping,
                 sendMessageCalls, qrImages>>

\* ---------------------------------------------------- the gateway at work
\* A database in use where the administrator has registered n customers and
\* booked one pending transaction for each.
RECURSIVE WithDebtors(_)
WithDebtors(n) ==
  IF n = 0 THEN auth_login(Fresh, "admin", "admin123")
  ELSE LET before == WithDebtors(n - 1)
           customer == customers_post(before.s, before.token, [tipe |-> "internet"])
           booked == transactions_post(customer.s, before.token,
                       [customer_id |-> n, customer_tipe |-> "internet",
                        jumlah |-> 1, jenis |-> "pemasukan", status |-> ""])
       IN [before EXCEPT !.s = booked.s]

InitGateway == (\E n \in 1..MaxDebtors : Starts(WithDebtors(n).s)) /\ Idle

\* client.sendMessage has been called at most n times.
HandedWithin(n) == sendMessageCalls' <= n

NextGateway ==
  \/ \E t \in tokens : WhatsappStart(t)
  \/ onReady
  \/ onAuthenticationFailure
  \/ \E t \in tokens : WhatsappStop(t)
  \/ Destroyed
  \/ DestroyFails
  \/ \E t \in tokens, c \in CustomerIds, accepted \in BOOLEAN :
       WhatsappSendBilling(t, c, accepted) /\ HandedWithin(MaxHanded)
  \/ \E t \in tokens : WhatsappBroadcast(t)
  \/ \E accepted \in BOOLEAN : BroadcastSend(accepted) /\ HandedWithin(MaxHanded)
  \/ BroadcastReturns

SpecGateway == InitGateway /\ [][NextGateway]_vars

\* ------------------------------------------------- the event stream at work
\* Subscribers come and go while an administrator, logged in on a database in
\* use, changes settings, settles transactions and starts the gateway.
InitEvents ==
  /\ Starts(InUse([username |-> "admin", password |-> "admin123"],
                  [tipe |-> "internet"],
                  [customer_id |-> 1, customer_tipe |-> "internet", jumlah |-> 1,
                   jenis |-> "pemasukan", status |-> ""]))
  /\ Idle

\* No response has been sent more than n frames.
FramesWithin(n) == \A res \in DOMAIN streams' : Len(streams'[res]) <= n

NextEvents ==
  \/ Len(streams) < MaxClients /\ EventsGet
  \/ \E res \in clients : EventsClose(res)
  \/ \E t \in tokens :
       SettingsPost(t, "price_gas", "25000") /\ FramesWithin(MaxFrames)
  \/ \E t \in tokens, id \in TransactionIds :
       TransactionsMarkLunas(t, id) /\ Within(MaxEventLog) /\ FramesWithin(MaxFrames)
  \/ \E t \in tokens : WhatsappStart(t) /\ FramesWithin(MaxFrames)

SpecEvents == InitEvents /\ [][NextEvents]_vars

\* ------------------------------------------------ the gateway status feed
\* Subscribers come and go while the administrator starts and stops the
\* gateway and the Client instance reports what happens to it.
InitStatus == Starts(auth_login(Fresh, "admin", "admin123").s) /\ Idle

\* The responses opened so far have been sent at most n frames in all.
RECURSIVE FramesWritten(_)
FramesWritten(st) ==
  IF st = <<>> THEN 0 ELSE Len(Head(st)) + FramesWritten(Tail(st))
WrittenWithin(n) == FramesWritten(streams') <= n

\* At most n generateQRCodeImage promises are pending.
QrWithin(n) == qrImages' <= n

NextStatus ==
  \/ Len(streams) < MaxSubscribers /\ EventsGet /\ WrittenWithin(MaxStatusFrames)
  \/ \E res \in clients : EventsClose(res)
  \/ \E t \in tokens : WhatsappStart(t) /\ WrittenWithin(MaxStatusFrames)
  \/ onReady /\ WrittenWithin(MaxStatusFrames)
  \/ onAuthenticated /\ WrittenWithin(MaxStatusFrames)
  \/ onAuthenticationFailure /\ WrittenWithin(MaxStatusFrames)
  \/ onQr /\ WrittenWithin(MaxStatusFrames) /\ QrWithin(MaxQr)
  \/ QrGenerated /\ WrittenWithin(MaxStatusFrames)
  \/ onStateChange /\ WrittenWithin(MaxStatusFrames)
  \/ InitializeFails /\ WrittenWithin(MaxStatusFrames)
  \/ \E t \in tokens : WhatsappStop(t) /\ WrittenWithin(MaxStatusFrames)
  \/ Destroyed /\ WrittenWithin(MaxStatusFrames)
  \/ DestroyFails

SpecStatus == InitStatus /\ [][NextStatus]_vars

\* ------------------------------------------------- records and their owners
\* From a new database the seeded accounts log in, the administrator adds and
\* removes accounts, and customers and transactions are registered and
\* removed.
InitIntegrity == Init

\* A complete transaction for a customer id, which may name no customer.
IntegrityTransactions ==
  [customer_id : CustomerIds, customer_tipe : {"gas"}, jumlah : {1},
   jenis : {"pemasukan"}, status : {""}]

NextIntegrity ==
  \/ \E a \in Actors : Login(a.username, a.password) /\ Within(MaxIntegrityLog)
  \/ \E t \in tokens, d \in NewUsers : UsersPost(t, d) /\ Within(MaxIntegrityLog)
  \/ \E t \in tokens, id \in UserIds : UsersDelete(t, id) /\ Within(MaxIntegrityLog)
  \/ \E t \in tokens : CustomersPost(t, [tipe |-> "gas"]) /\ Within(MaxIntegrityLog)
  \/ \E t \in tokens, id \in CustomerIds :
       CustomersDelete(t, id) /\ Within(MaxIntegrityLog)
  \/ \E t \in tokens, d \in IntegrityTransactions :
       TransactionsPost(t, d) /\ Within(MaxIntegrityLog)
  \/ \E t \in tokens, id \in TransactionIds :
       TransactionsDelete(t, id) /\ Within(MaxIntegrityLog)

SpecIntegrity == InitIntegrity /\ [][NextIntegrity]_vars

\* ------------------------------------------------------ the debtor query
\* customers.aktif is a column no route writes: a row with aktif = 0 is one the
\* database file already holds when the server opens it.  Here the
\* administrator has logged in on a database with two customers, the first of
\* which may be such a row, and books, settles and deletes transactions.
TwoCustomers(aktif) ==
  LET login == auth_login(Fresh, "admin", "admin123")
      first == customers_post(login.s, login.token, [tipe |-> "internet"])
      second == customers_post(first.s, login.token, [tipe |-> "gas"])
  IN [second.s EXCEPT !.customers[1].aktif = aktif]

InitDebt == (\E aktif \in BOOLEAN : Starts(TwoCustomers(aktif))) /\ Idle

\* jumlah is any integer but 0 (`!jumlah` rejects 0; the column has no CHECK).
DebtAmounts == {-1, 2}
DebtTransactions ==
  [customer_id : 1..2, customer_tipe : {"internet"}, jumlah : DebtAmounts,
   jenis : {"pemasukan"}, status : {"", "lunas"}]

NextDebt ==
  \/ \E t \in tokens, d \in DebtTransactions :
       TransactionsPost(t, d) /\ Within(MaxDebtLog)
  \/ \E t \in tokens, id \in TransactionIds :
       TransactionsMarkLunas(t, id) /\ Within(MaxDebtLog)
  \/ \E t \in tokens, id \in TransactionIds :
       TransactionsDelete(t, id) /\ Within(MaxDebtLog)

SpecDebt == InitDebt /\ [][NextDebt]_vars

\* ============================ properties =================================
\* A token the server signed whose 24 hours have not run out.
Live(t) == t \in tokens /\ ~t.expired

\* The replies of the routes registered with requireAdmin, to every request of
\* the input domains made with token t.
AdminOnlyReplies(t) ==
  {users_get(State, t), backup_get(State, t), activity_logs_get(State, t)}
  \cup {users_post(State, t, d) : d \in NewUsers}
  \cup {users_put(State, t, x[1], x[2]) : x \in UserIds \X UserUpdates}
  \cup {users_delete(State, t, id) : id \in UserIds}
  \cup {restore_post(State, t, b) : b \in Backups}

\* C1: once a user's aktif flag is false, a token signed for that user that
\* has not expired fails validation with 401 at GET /api/auth/verify and at
\* the authenticateToken middleware.
C1_DeactivatedTokenRejected ==
  \A t \in tokens :
    (Live(t) /\ t.id \in DOMAIN users /\ ~users[t.id].aktif)
      => /\ auth_verify(State, t).status = 401
         /\ authenticateToken(State, t) # ""

\* C2: a live token signed while the user was admin, presented after the
\* stored role has become staff, is answered 403 by every admin-only route.
C2_AdminCheckUsesStoredRole ==
  \A t \in tokens :
    (Live(t) /\ t.role = "admin" /\ t.id \in DOMAIN users
       /\ users[t.id].role = "staff")
      => \A r \in AdminOnlyReplies(t) : r.status = 403

\* C3: a request to an admin-only route (user list/create/update/delete,
\* backup, restore, activity logs) whose principal carries the role staff is
\* answered 403, and one without a valid token 401; neither changes a stored
\* record nor publishes an event.
C3_StaffForbiddenOnAdminRoutes ==
  \A t \in Presented : \A r \in AdminOnlyReplies(t) :
    /\ (Live(t) /\ t.role = "staff")
         => (r.status = 403 /\ r.s = State /\ r.pub = <<>>)
    /\ ~Live(t) => (r.status = 401 /\ r.s = State /\ r.pub = <<>>)

\* C3's case is reached: a staff principal with a live token asks for the user
\* list and is refused, and a request without a token is answered 401.
C3_Witness ==
  \E t \in tokens :
    /\ Live(t) /\ t.role = "staff"
    /\ users_get(State, t).status = 403
    /\ restore_post(State, t, [customers |-> <<[tipe |-> "gas"]>>,
                               settings |-> <<>>]).status = 403
    /\ backup_get(State, NoToken).status = 401

\* C4: POST /api/settings by a staff principal is answered 403, leaves the
\* settings unchanged and publishes no settings_updated event.
C4_SettingsWriteAdminOnly ==
  \A t \in tokens : \A k \in SettingKeys \ {""} : \A v \in SettingValues :
    (Live(t) /\ t.role = "staff")
      => LET r == settings_post(State, t, k, v)
         IN r.status = 403 /\ r.s.settings = settings /\ r.pub = <<>>

\* C5: with the correct secret, login of an active user answers 200, appends
\* exactly one LOGIN row and returns a token that /api/auth/verify resolves to
\* the same user id and role; login of a deactivated user answers 401 "Akun
\* tidak aktif", signs no token and appends no row.
C5_LoginByActiveFlag ==
  \A id \in DOMAIN users : \A p \in Passwords :
    compareSync(p, users[id].password)
      => LET r == auth_login(State, users[id].username, p)
             v == auth_verify(r.s, r.token)
         IN IF users[id].aktif
            THEN /\ r.status = 200
                 /\ r.s.activity_logs =
                      Append(activity_logs, [user_id |-> id, action |-> "LOGIN"])
                 /\ Tables([r.s EXCEPT !.activity_logs = activity_logs])
                      = Tables(State)
                 /\ r.token \in r.s.tokens /\ ~r.token.expired
                 /\ v.status = 200
                 /\ v.user.id = id /\ v.user.role = users[id].role
            ELSE /\ r.status = 401 /\ r.error = "Akun tidak aktif"
                 /\ r.token = NoToken
                 /\ r.s = State

\* C5's cases are reached: a login has succeeded (its LOGIN row and token are
\* there) and a deactivated user presents the correct secret.
C5_Witness ==
  /\ \E t \in tokens : \E i \in 1..Len(activity_logs) :
       activity_logs[i] = [user_id |-> t.id, action |-> "LOGIN"]
  /\ \E id \in DOMAIN users : \E p \in Passwords :
       /\ ~users[id].aktif /\ compareSync(p, users[id].password)
       /\ auth_login(State, users[id].username, p).status = 401

\* C6: a login with an unknown username and a login with a known active
\* username and a wrong password get the same status and the same error.
C6_LoginFailureIndistinguishable ==
  \A u1 \in Usernames, u2 \in Usernames, p \in Passwords :
    (/\ userOps_getByUsername(State, u1) = NULL
     /\ userOps_getByUsername(State, u2) # NULL
     /\ users[userOps_getByUsername(State, u2)].aktif
     /\ ~compareSync(p, users[userOps_getByUsername(State, u2)].password))
      => /\ auth_login(State, u1, p).status = auth_login(State, u2, p).status
         /\ auth_login(State, u1, p).error = auth_login(State, u2, p).error

\* The rows markAsLunas has inserted.
Receipts(trs) == {id \in DOMAIN trs : trs[id].deskripsi = PembayaranOtomatis}

\* C7: mark-lunas of a pending transaction of amount A sets the status of
\* exactly that row to lunas and inserts exactly one row of jenis pemasukan,
\* status lunas, amount A and the same customer; every other transaction and
\* every customer is left as it was.
C7_MarkLunasSettlesAndReceipts ==
  \A t \in tokens : \A id \in DOMAIN transactions :
    (Live(t) /\ transactions[id].status = "pending")
      => LET r == transactions_mark_lunas(State, t, id)
             new == sqlite_sequence.transactions + 1
         IN /\ r.status = 200
            /\ DOMAIN r.s.transactions = DOMAIN transactions \cup {new}
            /\ new \notin DOMAIN transactions
            /\ r.s.transactions[id] = [transactions[id] EXCEPT !.status = "lunas"]
            /\ \A o \in DOMAIN transactions \ {id} :
                 r.s.transactions[o] = transactions[o]
            /\ r.s.transactions[new].jenis = "pemasukan"
            /\ r.s.transactions[new].status = "lunas"
            /\ r.s.transactions[new].jumlah = transactions[id].jumlah
            /\ r.s.transactions[new].customer_id = transactions[id].customer_id
            /\ r.s.customers = customers

\* C7's case is reached: a pending transaction stands beside another
\* transaction, and a logged-in user's mark-lunas of it is answered 200.
C7_Witness ==
  \E t \in tokens : \E id \in DOMAIN transactions :
    /\ Live(t) /\ transactions[id].status = "pending"
    /\ DOMAIN transactions # {id}
    /\ transactions_mark_lunas(State, t, id).status = 200

\* C8: mark-lunas of a transaction that is already lunas is answered 200 and
\* inserts one further receipt row; the transaction stays lunas.
C8_MarkLunasRepeatsReceipt ==
  \A t \in tokens : \A id \in DOMAIN transactions :
    (Live(t) /\ transactions[id].status = "lunas")
      => LET r == transactions_mark_lunas(State, t, id)
         IN /\ r.status = 200
            /\ Cardinality(Receipts(r.s.transactions))
                 = Cardinality(Receipts(transactions)) + 1
            /\ Cardinality(DOMAIN r.s.transactions)
                 = Cardinality(DOMAIN transactions) + 1
            /\ r.s.transactions[id] = transactions[id]

\* C8's case has happened: transaction 1 was marked lunas twice and both of
\* its receipts, rows 2 and 3, are stored.
C8_Witness ==
  /\ {1, 2, 3} \subseteq DOMAIN transactions
  /\ transactions[1].status = "lunas"
  /\ {2, 3} \subseteq Receipts(transactions)
  /\ \E i \in 1..Len(activity_logs) : \E j \in (i+1)..Len(activity_logs) :
       activity_logs[i].action = "PAYMENT" /\ activity_logs[j].action = "PAYMENT"
  /\ \E t \in tokens : Live(t) /\ transactions_mark_lunas(State, t, 1).status = 200

\* C9: mark-lunas of an id that names no transaction is answered 404, changes
\* no table, appends no activity row and publishes no event.
C9_MarkLunasUnknownId ==
  \A t \in tokens : \A id \in TransactionIds :
    (Live(t) /\ id \notin DOMAIN transactions)
      => LET r == transactions_mark_lunas(State, t, id)
         IN r.status = 404 /\ r.s = State /\ r.pub = <<>>

\* C9's case is reached: an id that was handed out and then deleted is asked
\* to be marked lunas while other transactions are stored.
C9_Witness ==
  \E t \in tokens : \E id \in 1..sqlite_sequence.transactions :
    /\ Live(t) /\ id \notin DOMAIN transactions
    /\ DOMAIN transactions # {}
    /\ transactions_mark_lunas(State, t, id).status = 404

\* C10: no step (create, mark-lunas, delete, customer update, restore) takes a
\* stored transaction from lunas back to pending.
C10_StatusOnlyForward ==
  [][\A id \in DOMAIN transactions :
       (transactions[id].status = "lunas" /\ id \in DOMAIN transactions')
         => transactions'[id].status = "lunas"]_vars

\* C10's case is reached: a transaction was marked lunas, another request was
\* served after that, and it is still stored.
C10_Witness ==
  /\ \E id \in DOMAIN transactions :
       transactions[id].status = "lunas" /\ transactions[id].deskripsi # PembayaranOtomatis
  /\ \E i \in 1..Len(activity_logs) : \E j \in (i+1)..Len(activity_logs) :
       activity_logs[i].action = "PAYMENT" /\ activity_logs[j].action # "PAYMENT"

\* a is an initial part of b.
IsPrefix(a, b) == Len(a) <= Len(b) /\ SubSeq(b, 1, Len(a)) = a
\* What was written to response res in this step.
Written(res) == SubSeq(streams'[res], Len(streams[res]) + 1, Len(streams'[res]))

\* C11: what an SSE response receives starts with the connected frame and then
\* the wa_status frame holding the gateway status at the time of the request;
\* a response newly opened holds these two frames and nothing else, and every
\* later frame is appended by a later step, after the frames already there.
C11_StreamStartsWithAckThenStatus ==
  /\ [](\A res \in DOMAIN streams :
          /\ Len(streams[res]) >= 2
          /\ streams[res][1] = Frame("connected", "")
          /\ streams[res][2].type = "wa_status")
  /\ [][/\ \A res \in DOMAIN streams :
             res \in DOMAIN streams' /\ IsPrefix(streams[res], streams'[res])
        /\ \A res \in DOMAIN streams' \ DOMAIN streams :
             streams'[res] = <<Frame("connected", ""),
                               Frame("wa_status", clientStatus)>>]_vars

\* C11's case is reached: one response has received an event after its two
\* opening frames, and a response opened later, when the gateway was starting,
\* holds fewer frames and shows that status in its second frame.
C11_Witness ==
  \E a \in DOMAIN streams, b \in DOMAIN streams :
    /\ a < b
    /\ Len(streams[a]) >= 3 /\ streams[a][3].type = "settings_updated"
    /\ Len(streams[b]) < Len(streams[a])
    /\ streams[b][2] = Frame("wa_status", "initializing")

\* C12: a step that changes the settings, the transactions or the gateway
\* status writes exactly one frame of the matching type to every registered
\* response; a registered response is written the same frames as every other
\* one; a response whose connection closed stays out of `clients` and is never
\* written to again.
C12_PublishReachesRegisteredOnly ==
  /\ [](clients \subseteq DOMAIN streams)
  /\ [][/\ \A res \in DOMAIN streams \ clients :
             res \notin clients' /\ streams'[res] = streams[res]
        /\ \A a \in clients, b \in clients : Written(a) = Written(b)
        /\ \A res \in clients :
             /\ settings' # settings
                  => Written(res) = <<Frame("settings_updated", "")>>
             /\ transactions' # transactions
                  => Written(res) = <<Frame("transaction_updated", "")>>
             /\ clientStatus' # clientStatus
                  => Written(res) = <<Frame("wa_status", clientStatus')>>]_vars

\* C12's case is reached: two responses received the same event, one of them
\* closed, and the event published after that reached only the other.
C12_Witness ==
  \E a \in clients, b \in DOMAIN streams \ clients :
    /\ Len(streams[a]) = 4 /\ Len(streams[b]) = 3
    /\ streams[a][3] = streams[b][3]
    /\ streams[a][3].type = "transaction_updated"

\* C13: a broadcastBillingMessage call that has returned attempted a send to
\* every debtor of its list and reports total = the length of the list and
\* success + failed = total, whatever number of the sends failed.
C13_BroadcastAttemptsEveryDebtor ==
  job.phase \in {"completed", "failed"}
    => /\ job.phase = "completed"
       /\ job.total = Len(job.debtors)
       /\ job.success + job.failed = job.total

\* C14: every sendBillingMessage call resolves with a result (it does not
\* reject) and appends exactly one message_logs row with that result as its
\* status: success when the gateway is ready, the customer exists and the
\* transport accepts the message, failed otherwise.
C14_SendAlwaysLogsAndReturns ==
  \A t \in tokens, c \in CustomerIds, accepted \in BOOLEAN :
    LET sent == sendBillingMessage(State, client, clientStatus, c, t.id, accepted)
        ok == /\ client # NULL /\ clientStatus = "ready"
              /\ c \in DOMAIN customers /\ accepted
    IN /\ sent.outcome \in {"success", "failed"}
       /\ sent.outcome = "success" <=> ok
       /\ Len(sent.s.message_logs) = Len(message_logs) + 1
       /\ SubSeq(sent.s.message_logs, 1, Len(message_logs)) = message_logs
       /\ sent.s.message_logs[Len(message_logs) + 1].status = sent.outcome

\* The sends a request or the broadcast in progress may make in this state.
SendsNow ==
  {sendBillingMessage(State, client, clientStatus, c, t.id, accepted) :
     t \in tokens, c \in CustomerIds, accepted \in BOOLEAN}

\* C20: client.sendMessage is called only in a step that starts with a Client
\* instance and clientStatus ready; while there is no instance or the status
\* is not ready (so from the end of stopService until a start has reached
\* ready), every send, those of a broadcast in progress included, fails
\* without calling client.sendMessage.
C20_TransportOnlyWhenReady ==
  /\ [][sendMessageCalls' # sendMessageCalls
          => client # NULL /\ clientStatus = "ready"]_vars
  /\ []((client = NULL \/ clientStatus # "ready")
          => \A sent \in SendsNow : ~sent.handed /\ sent.outcome # "success")

\* C20's case is reached: a broadcast handed its first message to the
\* transport, stopService then ran to its end, and the next send of the
\* broadcast failed without a further call of client.sendMessage.
C20_Witness ==
  /\ client = NULL /\ clientStatus = "disconnected" /\ ~stopping
  /\ job.phase = "failed" /\ job.success >= 1 /\ job.total = job.success + 1
  /\ job.total <= Len(job.debtors)
  /\ sendMessageCalls = job.success

\* The pending transactions of customer c.
PendingOf(c) ==
  {t \in DOMAIN transactions :
     transactions[t].customer_id = c /\ transactions[t].status = "pending"}

\* C15: customerOps.getWithPending returns one row for each active customer
\* that has a pending transaction and whose pending amounts sum to more than
\* zero, carrying that sum as total_debt, and no row for any other customer:
\* none for an inactive one, none for a sum of zero or less, and settled
\* transactions are not summed.
C15_DebtorsAreActiveWithPositivePendingSum ==
  LET result == customerOps_getWithPending(State)
  IN /\ \A d \in result : d.id \in DOMAIN customers
     /\ \A c \in DOMAIN customers :
          LET owed == SumJumlah(transactions, PendingOf(c))
          IN IF customers[c].aktif /\ PendingOf(c) # {} /\ owed > 0
             THEN {d \in result : d.id = c} = {[id |-> c, total_debt |-> owed]}
             ELSE {d \in result : d.id = c} = {}

\* C15's cases are reached: an inactive customer owes a pending amount and is
\* left out, while an active customer with a settled transaction and pending
\* amounts 2 and -1 is returned with total_debt 1.
C15_Witness ==
  /\ ~customers[1].aktif /\ SumJumlah(transactions, PendingOf(1)) > 0
  /\ \E t \in DOMAIN transactions :
       transactions[t].customer_id = 2 /\ transactions[t].status = "lunas"
  /\ {transactions[t].jumlah : t \in PendingOf(2)} = {2, -1}
  /\ customerOps_getWithPending(State) = {[id |-> 2, total_debt |-> 1]}

\* Backups whose customers carry the id they had when exported.
ExportedCustomers == {[id |-> 1, tipe |-> t] : t \in Tipes}
ExportedBackups ==
  [customers : SeqsUpTo(ExportedCustomers, 2),
   settings : {<<>>, << <<"price_gas", "25000">>, <<"footer", "x">> >>}]

\* C16: a restore answered 200 for a backup of n customers adds exactly n
\* customers rows, under the next n ids of the sequence (not the ids of the
\* backup), with the fields of the backup entries in order; it leaves the rows
\* already there as they were, stores every setting of the backup and no
\* other, and leaves users and transactions unchanged.
C16_RestoreCreatesCustomersAndSettings ==
  \A t \in tokens, b \in ExportedBackups :
    LET r == restore_post(State, t, b)
        n == Len(b.customers)
        base == sqlite_sequence.customers
        keys == {b.settings[i][1] : i \in 1..Len(b.settings)}
    IN r.status = 200
         => /\ DOMAIN r.s.customers = DOMAIN customers \cup ((base + 1)..(base + n))
            /\ \A i \in 1..n :
                 /\ base + i \notin DOMAIN customers
                 /\ base + i # b.customers[i].id
                 /\ r.s.customers[base + i].tipe = b.customers[i].tipe
            /\ \A c \in DOMAIN customers : r.s.customers[c] = customers[c]
            /\ DOMAIN r.s.settings = DOMAIN settings \cup keys
            /\ \A i \in 1..Len(b.settings) :
                 r.s.settings[b.settings[i][1]] = b.settings[i][2]
            /\ \A k \in DOMAIN settings \ keys : r.s.settings[k] = settings[k]
            /\ r.s.users = users
            /\ r.s.transactions = transactions

\* C16's case is reached: a restore has been served on a database holding a
\* customer and a transaction, and the administrator's restore of a backup
\* with two customers exported under id 1 is answered 200.
C16_Witness ==
  /\ 1 \in DOMAIN customers /\ DOMAIN transactions # {}
  /\ \E i \in 1..Len(activity_logs) : activity_logs[i].action = "RESTORE_DATA"
  /\ \E t \in tokens :
       restore_post(State, t,
         [customers |-> <<[id |-> 1, tipe |-> "gas"], [id |-> 1, tipe |-> "internet"]>>,
          settings |-> << <<"price_gas", "25000">>, <<"footer", "x">> >>]).status = 200

\* The replies of the customer and transaction write routes to every request
\* of the input domains made with token t.
RecordWriteReplies(t) ==
  {customers_post(State, t, d) : d \in CustomerData}
  \cup {customers_put(State, t, x[1], x[2]) : x \in CustomerIds \X CustomerData}
  \cup {customers_delete(State, t, id) : id \in CustomerIds}
  \cup {transactions_post(State, t, d) : d \in TransactionData}
  \cup {transactions_mark_lunas(State, t, id) : id \in TransactionIds}
  \cup {transactions_delete(State, t, id) : id \in TransactionIds}

\* Backups with up to two customers, among them entries the customers table
\* rejects.
AnyBackups ==
  [customers : SeqsUpTo(CustomerData, 2),
   settings : {<<>>, << <<"price_gas", "25000">> >>}]

RestoreReplies(t) == {restore_post(State, t, b) : b \in AnyBackups}

\* C17: a write request answered 200 (customer create/update/delete,
\* transaction create/mark-lunas/delete, restore) has appended its audit row
\* by the time it broadcasts its event: every event it publishes is published
\* with all the audit rows of the request already stored.
C17_AuditBeforeEvent ==
  \A t \in tokens : \A r \in RecordWriteReplies(t) \cup RestoreReplies(t) :
    r.status = 200
      => /\ Len(r.s.activity_logs) > Len(activity_logs)
         /\ r.pub # <<>>
         /\ \A i \in 1..Len(r.pub) : r.pub[i].logged = Len(r.s.activity_logs)

\* The event types a reply published.
Published(r) == {r.pub[i].type : i \in 1..Len(r.pub)}

\* C18: a request that leaves the customers, the transactions or the settings
\* changed has published an event of the matching type (customer_updated,
\* transaction_updated, settings_updated, or data_restored for a restore),
\* also when it is a restore one of whose customers the table rejects.
C18_EveryChangeIsPublished ==
  \A t \in tokens :
    /\ \A r \in RecordWriteReplies(t) :
         /\ r.s.customers # customers => "customer_updated" \in Published(r)
         /\ r.s.transactions # transactions => "transaction_updated" \in Published(r)
    /\ \A k \in SettingKeys, v \in SettingValues :
         LET r == settings_post(State, t, k, v)
         IN r.s.settings # settings => "settings_updated" \in Published(r)
    /\ \A r \in RestoreReplies(t) :
         (r.s.customers # customers \/ r.s.settings # settings)
           => "data_restored" \in Published(r)

\* Each customer and transaction mutation applied in this state, once with
\* the acting user a and once without one.
Mutations(a) ==
  {[with |-> customerOps_create(State, d, a),
    without |-> customerOps_create(State, d, NULL)] : d \in CustomerData}
  \cup {[with |-> customerOps_update(State, x[1], x[2], a),
         without |-> customerOps_update(State, x[1], x[2], NULL)] :
          x \in CustomerIds \X CustomerData}
  \cup {[with |-> customerOps_delete(State, id, a),
         without |-> customerOps_delete(State, id, NULL)] : id \in CustomerIds}
  \cup {[with |-> transactionOps_create(State, d, a),
         without |-> transactionOps_create(State, d, NULL)] : d \in TransactionData}
  \cup {[with |-> transactionOps_markAsLunas(State, id, a),
         without |-> transactionOps_markAsLunas(State, id, NULL)] :
          id \in TransactionIds}
  \cup {[with |-> transactionOps_delete(State, id, a),
         without |-> transactionOps_delete(State, id, NULL)] : id \in TransactionIds}

\* The rows of a table, whoever created them.
Anonymous(rows) == [id \in DOMAIN rows |-> [rows[id] EXCEPT !.created_by = NULL]]

\* C19: a customer or transaction mutation that succeeds with a logged-in
\* user as its acting user appends exactly one activity_logs row, with that
\* user; without an acting user it succeeds as well, makes the same change to
\* the tables and appends no row; and no step changes or removes a row of
\* activity_logs.
C19_OneAuditRowPerMutation ==
  /\ [](\A a \in {t.id : t \in tokens} : \A m \in Mutations(a) :
          (~m.with.threw /\ m.with.ret)
            => /\ Len(m.with.s.activity_logs) = Len(activity_logs) + 1
               /\ IsPrefix(activity_logs, m.with.s.activity_logs)
               /\ m.with.s.activity_logs[Len(activity_logs) + 1].user_id = a
               /\ ~m.without.threw /\ m.without.ret
               /\ m.without.s.activity_logs = activity_logs
               /\ Anonymous(m.without.s.customers) = Anonymous(m.with.s.customers)
               /\ Anonymous(m.without.s.transactions)
                    = Anonymous(m.with.s.transactions))
  /\ [][IsPrefix(activity_logs, activity_logs')]_vars

\* C19's case is reached: the logged-in user has settled a transaction and
\* deleted one, each leaving its audit row, and a transaction and a customer
\* are there that can be settled and deleted without an acting user.
C19_Witness ==
  /\ \E t \in tokens : \E i \in 1..Len(activity_logs) :
       \E j \in (i + 1)..Len(activity_logs) :
         /\ activity_logs[i] = [user_id |-> t.id, action |-> "PAYMENT"]
         /\ activity_logs[j] = [user_id |-> t.id, action |-> "DELETE_TRANSACTION"]
  /\ \E id \in DOMAIN transactions :
       /\ transactionOps_markAsLunas(State, id, NULL).ret
       /\ transactionOps_markAsLunas(State, id, NULL).s.transactions # transactions
  /\ \E c \in DOMAIN customers : customerOps_delete(State, c, NULL).ret

\* The status of the last wa_status frame written to a response.
RECURSIVE LastStatus(_)
LastStatus(frames) ==
  IF frames = <<>> THEN NULL
  ELSE IF frames[Len(frames)].type = "wa_status" THEN frames[Len(frames)].data
  ELSE LastStatus(SubSeq(frames, 1, Len(frames) - 1))

\* C21: every change of the gateway status is published as a wa_status event
\* carrying the new status: the most recent wa_status frame written to every
\* registered response, the one written at subscribe included, carries the
\* gateway's current status, and a step that changes the status writes
\* exactly one frame, that one, to every registered response.
C21_SubscribersSeeCurrentStatus ==
  /\ [](\A res \in clients : LastStatus(streams[res]) = clientStatus)
  /\ [][clientStatus' # clientStatus
         => \A res \in clients :
              streams'[res] = Append(streams[res], Frame("wa_status", clientStatus'))]_vars

\* C21's case is reached: a subscriber that was told "initializing" at
\* subscribe has since been sent the QR status, whose image is still being
\* rendered, and a second one was told "qr" at subscribe.
C21_Witness ==
  /\ clientStatus = "qr" /\ qrImages > 0
  /\ \E a \in clients, b \in clients :
       /\ streams[a] = <<Frame("connected", ""), Frame("wa_status", "initializing"),
                         Frame("wa_status", "qr")>>
       /\ streams[b] = <<Frame("connected", ""), Frame("wa_status", "qr")>>

\* Every reference of the tables of s names a row that exists.
Intact(s) ==
  /\ \A t \in DOMAIN s.transactions :
       /\ s.transactions[t].customer_id \in DOMAIN s.customers
       /\ s.transactions[t].created_by \in DOMAIN s.users \cup {NULL}
  /\ \A c \in DOMAIN s.customers :
       s.customers[c].created_by \in DOMAIN s.users \cup {NULL}
  /\ \A i \in DOMAIN s.activity_logs :
       s.activity_logs[i].user_id \in DOMAIN s.users \cup {NULL}

\* Some row of s would be left dangling without customer c / without user u.
CustomerNeeded(s, c) == ~Intact([s EXCEPT !.customers = [x \in DOMAIN @ \ {c} |-> @[x]]])
UserNeeded(s, u) == ~Intact([s EXCEPT !.users = [x \in DOMAIN @ \ {u} |-> @[x]]])

\* C22: referential integrity holds in every reachable store state and after
\* every customer delete, user delete and transaction create; a customer
\* delete or user delete that would leave a dangling reference fails and
\* leaves all records unchanged, and a transaction create naming a
\* non-existent customer is rejected without storing anything.
C22_ReferentialIntegrity ==
  /\ Intact(State)
  /\ \A t \in tokens :
       /\ \A c \in CustomerIds :
            LET r == customers_delete(State, t, c)
            IN /\ Intact(r.s)
               /\ (c \in DOMAIN customers /\ CustomerNeeded(State, c))
                    => (r.status = 500 /\ r.s = State /\ r.pub = <<>>)
       /\ \A u \in UserIds :
            LET r == users_delete(State, t, u)
            IN /\ Intact(r.s)
               /\ (u \in DOMAIN users /\ UserNeeded(State, u))
                    => (r.status # 200 /\ r.s = State /\ r.pub = <<>>)
       /\ \A d \in IntegrityTransactions :
            LET r == transactions_post(State, t, d)
            IN /\ Intact(r.s)
               /\ d.customer_id \notin DOMAIN customers
                    => (r.status = 500 /\ r.s = State /\ r.pub = <<>>)

\* C22's case is reached: after one customer was deleted, the administrator
\* is refused the delete of the customer that still has a transaction and the
\* delete of the staff account that booked it, and a transaction for the
\* deleted customer is refused.
C22_Witness ==
  /\ sqlite_sequence.customers > Cardinality(DOMAIN customers)
  /\ \E t \in tokens, c \in DOMAIN customers, u \in DOMAIN users, x \in DOMAIN transactions :
       /\ t.role = "admin" /\ u # t.id
       /\ transactions[x].customer_id = c /\ transactions[x].created_by = u
       /\ customers_delete(State, t, c).status = 500
       /\ users_delete(State, t, u).status = 500
       /\ transactions_post(State, t, [transactions[x] EXCEPT
             !.customer_id = sqlite_sequence.customers]).status = 500

\* The replies to every customer update, customer delete, transaction delete
\* and user update of the input domains made with token t.
TargetedWriteReplies(t) ==
  {customers_put(State, t, x[1], x[2]) : x \in CustomerIds \X CustomerData}
  \cup {customers_delete(State, t, id) : id \in CustomerIds}
  \cup {transactions_delete(State, t, id) : id \in TransactionIds}
  \cup {users_put(State, t, x[1], x[2]) : x \in UserIds \X UserUpdates}

\* C23: a customer update, customer delete, transaction delete or user update
\* answered 404 because the target id does not exist leaves every stored
\* record unchanged, the activity log included, and publishes no event.
C23_NotFoundChangesNothing ==
  \A t \in tokens : \A r \in TargetedWriteReplies(t) :
    r.status = 404 => (r.s = State /\ r.pub = <<>>)

\* The gateway is in service: there is a client and the status is ready, and
\* so a message the transport accepts is sent.
InService ==
  /\ client # NULL /\ clientStatus = "ready"
  /\ \A c \in DOMAIN customers :
       sendBillingMessage(State, client, clientStatus, c, NULL, TRUE).outcome = "success"

\* C24: startService does not take a running gateway out of service: a
\* startService call made while a client exists and the status is ready
\* leaves the status ready, and a send still succeeds after it.
C24_StartKeepsGatewayInService ==
  [][(InService /\ \E t \in tokens : WhatsappStart(t)) => InService']_vars

====
